---------------------------- MODULE Spec2Model ----------------------------
(***************************************************************************)
(* Model of src/main.py: the draft-room server (FastAPI + WebSocket).      *)
(*                                                                         *)
(* The server runs on one asyncio event loop, so a handler runs without    *)
(* interruption from one `await` to the next.  Each action below is one    *)
(* such run: it starts where a task was suspended (or where a request      *)
(* arrives) and ends at the next `await` that can suspend.                 *)
(*                                                                         *)
(* Identifiers come from str(uuid.uuid4())[:n].  Nothing in the code makes *)
(* them distinct, so they are drawn from a small set and can collide.      *)
(***************************************************************************)
EXTENDS Integers, Sequences, FiniteSets, TLC

\* ----------------------------------------------------------------- bounds
MaxRoomId == 1      \* room ids the uuid can yield
MaxId == 2          \* client and user ids the uuid can yield
MaxRooms == 1       \* rooms created
NConn == 2          \* life cycle: WebSocket connections
MaxMsgs == 1        \* life cycle: inbound WebSocket messages
MaxHttp == 1        \* life cycle: HTTP requests that change a room
LobbyHttp == 4      \* lobby: HTTP requests that change a room
LobbyMsgs == 1      \* lobby: inbound WebSocket messages
DraftMsgs == 2      \* draft: inbound WebSocket messages
DraftHttp == 1      \* draft: HTTP requests that change a room
MaxQueue == 2       \* draft: messages one client has in flight
RoomsCreated == 2   \* rooms: rooms created, under room ids that can collide
RoomsMsgs == 1      \* rooms: inbound WebSocket messages
RoomsHttp == 1      \* rooms: HTTP requests that change a room
SlowMsgs == 2       \* slow peer: inbound WebSocket messages
SlowHttp == 1       \* slow peer: HTTP requests that change a room
MaxLeaves == 1      \* attach: connections that leave

RoomIds == 1..MaxRoomId          \* values of str(uuid.uuid4())[:8]
Ids == 1..MaxId                  \* values of str(uuid.uuid4())[:6]
NoId == 0                        \* a missing "id" query parameter
Champions == {"Ahri", "Zed"}

\* ------------------------------------------------------------- data model
PlayerCountType == {"solo", "representative", "team"}

PARTICIPANT_LIMITS(mode) ==
    CASE mode = "solo" -> 1
      [] mode = "representative" -> 2
      [] mode = "team" -> 10

\* GameResult(**payload): the payloads a client can send, and whether
\* pydantic accepts them
GameResult == [winner |-> "team1", score |-> "1-0"]

\* team_data of update_team; "none" is a message without teamData
TeamData == {[team |-> "BLUE", position |-> 0], [team |-> "SPECTATOR", position |-> -1]}

LobbyUser(user_id, is_host) ==
    [id |-> user_id, team |-> "SPECTATOR", position |-> -1,
     isReady |-> FALSE, isHost |-> is_host]

NewRoom(mode) ==
    [bans |-> <<>>, picks |-> <<>>, settings |-> [playerCount |-> mode],
     status |-> "waiting", participants |-> {}, spectators |-> {},
     currentSet |-> 1, results |-> <<>>, users |-> <<>>]

\* lines 106-119: the status_update envelope built by broadcast_room_status
StatusUpdate(game_code, room) ==
    LET all_ready == \A i \in 1..Len(room.users) :
                        room.users[i].team # "SPECTATOR"
                            => (room.users[i].isReady \/ room.users[i].isHost)
    IN  [type |-> "status_update", gameCode |-> game_code, settings |-> room.settings,
         users |-> room.users, status |-> room.status, currentSet |-> room.currentSet,
         allReady |-> all_ready]

\* the raw room as serialised by websocket.send_json(room); of its fields the
\* model keeps the two the lobby status lacks
RoomJson(room) == [type |-> "room", bans |-> room.bans, picks |-> room.picks]

NoMsg == [type |-> "none"]

\* ------------------------------------------------- python dict, in order
\* connected_clients[room_id] is a dict client_id -> websocket.  CPython keeps
\* its entries in insertion order, a deleted entry leaves a hole, and an
\* iterator walks the entries by index and raises RuntimeError when the
\* number of live entries differs from the one it started with.
Tomb == [key |-> 0, ws |-> 0]
Live(d) == {i \in 1..Len(d) : d[i].key # 0}
Keys(d) == {d[i].key : i \in Live(d)}
Handles(d) == {d[i].ws : i \in Live(d)}
DictSet(d, k, v) ==
    IF k \in Keys(d)
    THEN [i \in 1..Len(d) |-> IF d[i].key = k THEN [key |-> k, ws |-> v] ELSE d[i]]
    ELSE Append(d, [key |-> k, ws |-> v])
DictDel(d, k) == [i \in 1..Len(d) |-> IF d[i].key = k THEN Tomb ELSE d[i]]
Min(S) == CHOOSE x \in S : \A y \in S : x <= y

\* dict with a dynamic domain
Put(f, k, v) == [x \in DOMAIN f \cup {k} |-> IF x = k THEN v ELSE f[x]]
Drop(f, k) == [x \in DOMAIN f \ {k} |-> f[x]]

VARIABLES
    rooms,              \* room_id -> the room object (an index into store)
    store,              \* the room objects ever created, in creation order
    connected_clients,  \* room_id -> dict client_id -> websocket
    ws,                 \* the serving task of each WebSocket connection
    http,               \* the HTTP request tasks that are inside a broadcast
    inq,                \* per connection, the messages in flight to the server
    inbox,              \* per connection, the last message its peer was sent
    got,                \* per serving task and connection, the send_json calls the
                        \* task made for that connection since its last receive
    processed,          \* per room object, the ban/pick messages applied in its current set
    njoins,             \* per room object, the users that joined it so far
    nreqs               \* HTTP requests served so far

vars == <<rooms, store, connected_clients, ws, http, inq, inbox, got, processed,
          njoins, nreqs>>

Conns == DOMAIN ws

\* ------------------------------------------------ broadcast_room_status
\* The iterator of `for websocket in connected_clients[game_code].values()`
\* together with the status_update built before the loop.  pos is the entry
\* whose send is awaited, tgt the websocket fetched from it, used the dict
\* size the iterator started with (di_used), left the items still expected
\* (len); stale says that the dict object was emptied and dropped from
\* connected_clients since (a later dict under the same room_id is another
\* object).
NoIt == [active |-> FALSE]

\* lines 103-122: the call up to the first awaited send
broadcast_room_status(game_code, rms, st, cc) ==
    IF game_code \notin DOMAIN rms \/ game_code \notin DOMAIN cc
    THEN NoIt
    ELSE LET d == cc[game_code]
             first == Min(Live(d))
         IN  [active |-> TRUE, rid |-> game_code, pos |-> first, tgt |-> d[first].ws,
              used |-> Cardinality(Live(d)), left |-> Cardinality(Live(d)) - 1,
              stale |-> FALSE,
              snap |-> StatusUpdate(game_code, st[rms[game_code]])]

\* next() of the dict iterator raises RuntimeError
IterRaises(it, cc) ==
    \/ it.stale
    \/ it.rid \notin DOMAIN cc
    \/ Cardinality(Live(cc[it.rid])) # it.used
    \/ /\ it.left = 0
       /\ \E i \in Live(cc[it.rid]) : i > it.pos

\* next() of the dict iterator, when it does not raise: the iterator at the
\* next live entry, or NoIt at the end of the dict
IterNext(it, cc) ==
    LET d == cc[it.rid]
        rest == {i \in Live(d) : i > it.pos}
    IN  IF rest = {} THEN NoIt
        ELSE [it EXCEPT !.pos = Min(rest), !.tgt = d[Min(rest)].ws, !.left = it.left - 1]

\* a websocket can still be written to while its serving task runs
Open(c) == ws[c].pc \in {"recv", "send", "bcast", "fbcast"}

\* lines 123-126: the awaited send returns (ok) or raises (caught and logged)
Delivered(it, ok) ==
    IF ok THEN [inbox EXCEPT ![it.tgt] = [type |-> it.snap.type]] ELSE inbox

\* del connected_clients[room_id]: every iterator over that dict is now over
\* an emptied object
Staled(it, room_id, pruned) ==
    IF pruned /\ it.active /\ it.rid = room_id THEN [it EXCEPT !.stale = TRUE] ELSE it

IdleTask ==
    [pc |-> "idle", room_id |-> NoId, is_spectator |-> FALSE, client_id |-> 0,
     room |-> 0, nrecv |-> 0, action |-> "", sendres |-> "", it |-> NoIt, exc |-> ""]

HttpTasks == 1..1
IdleHttp == [pc |-> "idle", it |-> NoIt]

InitWith(n) ==
    /\ rooms = <<>>
    /\ store = <<>>
    /\ connected_clients = <<>>
    /\ ws = [c \in 1..n |-> IdleTask]
    /\ http = [h \in HttpTasks |-> IdleHttp]
    /\ inq = [c \in 1..n |-> <<>>]
    /\ inbox = [c \in 1..n |-> NoMsg]
    /\ got = [c \in 1..n |-> [h \in 1..n |-> 0]]
    /\ processed = <<>>
    /\ njoins = <<>>
    /\ nreqs = 0

\* the server after start-up: no room, no connection
Init == InitWith(NConn)

\* POST /create-room (lines 128-152)
create_room(mode, room_id) ==
    /\ store' = Append(store, NewRoom(mode))
    /\ rooms' = Put(rooms, room_id, Len(store) + 1)
    /\ processed' = Append(processed, <<>>)
    /\ njoins' = Append(njoins, 0)
    /\ UNCHANGED <<connected_clients, ws, http, inq, inbox, got, nreqs>>

\* ------------------------------------------------------ /ws/draft: attach
\* a check that lets the connections of solo rooms in
RefusedUnknownOnly(room_id) ==
    \/ room_id = NoId
    \/ room_id \notin DOMAIN rooms
\* lines 272-284: the room is missing or its mode is solo
Refused(room_id) ==
    \/ room_id = NoId
    \/ room_id \notin DOMAIN rooms
    \/ store[rooms[room_id]].settings.playerCount = "solo"

\* a limit check that lets one participant too many in
LimitReachedOffByOne(room, is_spectator) ==
    /\ ~is_spectator
    /\ Cardinality(room.participants) > PARTICIPANT_LIMITS(room.settings.playerCount)
\* lines 287-292: the participant limit is reached
LimitReached(room, is_spectator) ==
    /\ ~is_spectator
    /\ Cardinality(room.participants) >= PARTICIPANT_LIMITS(room.settings.playerCount)

\* lines 293-301
AddClient(room, client_id, is_spectator) ==
    IF is_spectator
    THEN [room EXCEPT !.spectators = @ \cup {client_id}]
    ELSE [room EXCEPT !.participants = @ \cup {client_id}]

\* lines 304-306
Register(cc, room_id, client_id, websocket) ==
    Put(cc, room_id,
        DictSet(IF room_id \in DOMAIN cc THEN cc[room_id] ELSE <<>>, client_id, websocket))

\* lines 266-312: accept, check, attach; ends at `await websocket.close()`
\* or at the first `await websocket.receive_json()`
ws_connect(c, room_id, is_spectator, client_id) ==
    /\ ws[c].pc = "idle"
    /\ \A b \in Conns : b < c => ws[b].pc # "idle"
    /\ LET me == [ws[c] EXCEPT !.room_id = room_id, !.is_spectator = is_spectator,
                               !.client_id = client_id]
       IN  IF Refused(room_id) \/ LimitReached(store[rooms[room_id]], is_spectator)
           THEN /\ ws' = [ws EXCEPT ![c] = [me EXCEPT !.pc = "closed", !.client_id = 0]]
                /\ UNCHANGED <<store, connected_clients>>
           ELSE /\ store' = [store EXCEPT ![rooms[room_id]] =
                                 AddClient(@, client_id, is_spectator)]
                /\ connected_clients' = Register(connected_clients, room_id, client_id, c)
                /\ ws' = [ws EXCEPT ![c] = [me EXCEPT !.pc = "recv",
                                                      !.room = rooms[room_id]]]
    /\ UNCHANGED <<rooms, http, inq, inbox, got, processed, njoins, nreqs>>

\* ------------------------------------------- /ws/draft: inbound messages
NoTeamData == [team |-> "", position |-> -1]   \* a message without teamData

Msgs ==
    [action : {"ban", "pick"}, champion : Champions]
    \cup [action : {"submit_result"}, valid : BOOLEAN]
    \cup [action : {"update_team"}, userId : Ids, teamData : TeamData \cup {NoTeamData}]
    \cup [action : {"update_ready"}, userId : Ids, isReady : BOOLEAN]
    \cup {[action |-> "hello"]}

\* next((u for u in room["users"] if u["id"] == user_id), None), as an index
\* into users (0 for None)
TargetUser(users, user_id) ==
    LET hits == {i \in 1..Len(users) : users[i].id = user_id}
    IN  IF hits = {} THEN 0 ELSE Min(hits)

\* a ban that goes to the front of the list
BanAtFront(room, champion) == [room EXCEPT !.bans = <<champion>> \o @]
\* lines 322-323
Ban(room, champion) == [room EXCEPT !.bans = Append(@, champion)]
\* lines 325-326
Pick(room, champion) == [room EXCEPT !.picks = Append(@, champion)]
\* a submission that keeps the result of the last set only
SubmitResultOverwrites(room, result) ==
    [room EXCEPT !.results = <<result>>, !.currentSet = @ + 1,
                 !.bans = <<>>, !.picks = <<>>]
\* a submission that forgets to clear the picks
SubmitResultKeepsPicks(room, result) ==
    [room EXCEPT !.results = Append(@, result), !.currentSet = @ + 1, !.bans = <<>>]
\* lines 192-196 and 330-333
SubmitResult(room, result) ==
    [room EXCEPT !.results = Append(@, result), !.currentSet = @ + 1,
                 !.bans = <<>>, !.picks = <<>>]
\* lines 233-238 and 338-341
SetTeam(room, user_id, team_data) ==
    LET i == TargetUser(room.users, user_id)
    IN  IF i = 0 THEN room
        ELSE [room EXCEPT !.users[i].team = team_data.team,
                          !.users[i].position = team_data.position]
\* lines 252-256 and 346-348
SetReady(room, user_id, ready) ==
    LET i == TargetUser(room.users, user_id)
    IN  IF i = 0 THEN room ELSE [room EXCEPT !.users[i].isReady = ready]

\* lines 318-350: the exception the message raises, "" for none.
\* GameResult(**payload) rejects an invalid result; team_data["team"] on a
\* missing teamData is a TypeError, reached only when the target user exists.
Raised(room, is_spectator, msg) ==
    IF is_spectator THEN ""
    ELSE IF msg.action = "submit_result" /\ ~msg.valid THEN "ValidationError"
    ELSE IF /\ msg.action = "update_team"
            /\ TargetUser(room.users, msg.userId) # 0
            /\ msg.teamData = NoTeamData THEN "TypeError"
    ELSE ""

\* a dispatcher that applies the messages of spectators too
AppliedForAnyone(room, is_spectator, msg) ==
    CASE msg.action = "ban" -> Ban(room, msg.champion)
      [] msg.action = "pick" -> Pick(room, msg.champion)
      [] msg.action = "submit_result" -> SubmitResult(room, GameResult)
      [] msg.action = "update_team" -> SetTeam(room, msg.userId, msg.teamData)
      [] msg.action = "update_ready" -> SetReady(room, msg.userId, msg.isReady)
      [] OTHER -> room
\* lines 318-350: the room after the message
Applied(room, is_spectator, msg) ==
    IF is_spectator THEN room
    ELSE CASE msg.action = "ban" -> Ban(room, msg.champion)
           [] msg.action = "pick" -> Pick(room, msg.champion)
           [] msg.action = "submit_result" -> SubmitResult(room, GameResult)
           [] msg.action = "update_team" -> SetTeam(room, msg.userId, msg.teamData)
           [] msg.action = "update_ready" -> SetReady(room, msg.userId, msg.isReady)
           [] OTHER -> room

\* the serving task ends with an exception that nothing catches
Crash(task, exc) == [task EXCEPT !.pc = "crashed", !.exc = exc, !.it = NoIt,
                                 !.sendres = "", !.action = ""]

\* the task after a call of broadcast_room_status returned the iterator it:
\* suspended in the loop, or past the call
AfterBroadcast(task, it, final) ==
    [task EXCEPT !.it = it, !.sendres = "",
                 !.action = IF it.active THEN @ ELSE "",
                 !.pc = IF it.active THEN (IF final THEN "fbcast" ELSE "bcast")
                        ELSE (IF final THEN "done" ELSE "recv")]

\* the ban/pick messages applied to a room in its current set, in the order
\* the server applied them (history, not program state)
Logged(log, c, is_spectator, msg, n) ==
    IF is_spectator THEN log
    ELSE IF msg.action \in {"ban", "pick"}
         THEN Append(log, [conn |-> c, n |-> n, action |-> msg.action,
                           champion |-> msg.champion])
    ELSE IF msg.action = "submit_result" THEN <<>>
    ELSE log

\* lines 316-352: receive_json returns msg, the n-th message of the
\* connection; the message is applied and the room is handed to send_json,
\* whose outcome res is the peer's doing
ws_receive(c, msg, n, res) ==
    /\ ws[c].pc = "recv"
    /\ LET room == store[ws[c].room]
           exc == Raised(room, ws[c].is_spectator, msg)
       IN  IF exc # ""
           THEN /\ ws' = [ws EXCEPT ![c] = Crash([@ EXCEPT !.nrecv = n], exc)]
                /\ UNCHANGED <<store, inbox, got, processed, njoins>>
           ELSE /\ store' = [store EXCEPT ![ws[c].room] =
                                 Applied(@, ws[c].is_spectator, msg)]
                /\ processed' = [processed EXCEPT ![ws[c].room] =
                                     Logged(@, c, ws[c].is_spectator, msg, n)]
                /\ ws' = [ws EXCEPT ![c] = [@ EXCEPT !.pc = "send", !.sendres = res,
                                                     !.action = msg.action,
                                                     !.nrecv = n]]
                /\ inbox' = IF res = "ok"
                            THEN [inbox EXCEPT ![c] = RoomJson(store'[ws[c].room])]
                            ELSE inbox
                /\ got' = [got EXCEPT ![c] = [h \in Conns |-> IF h = c THEN 1 ELSE 0]]
                /\ UNCHANGED njoins
    /\ UNCHANGED <<rooms, connected_clients, http, nreqs>>

\* line 316: receive_json raises on a frame that is not a JSON object
ws_bad_frame(c) ==
    /\ ws[c].pc = "recv"
    /\ ws' = [ws EXCEPT ![c] = Crash([@ EXCEPT !.nrecv = @ + 1], "JSONDecodeError")]
    /\ UNCHANGED <<rooms, store, connected_clients, http, inbox, got, processed, njoins, nreqs>>

\* lines 357-360
Unregister(cc, room_id, client_id) ==
    IF room_id \in DOMAIN cc /\ client_id \in Keys(cc[room_id])
    THEN LET d == DictDel(cc[room_id], client_id)
         IN  IF Live(d) = {} THEN Drop(cc, room_id) ELSE Put(cc, room_id, d)
    ELSE cc

\* lines 363-366: the del raises KeyError when the client is not in the set
RoleMissing(room, client_id, is_spectator) ==
    IF is_spectator THEN client_id \notin room.spectators
    ELSE client_id \notin room.participants

\* lines 363-369
RemoveClient(room, client_id, is_spectator) ==
    LET r == IF is_spectator
             THEN [room EXCEPT !.spectators = @ \ {client_id}]
             ELSE [room EXCEPT !.participants = @ \ {client_id}]
    IN  [r EXCEPT !.users = SelectSeq(@, LAMBDA u : u.id # client_id)]

\* lines 355-375: the handler of WebSocketDisconnect, up to the first awaited
\* send of the final broadcast
Detach(c) ==
    LET me == ws[c]
        cc == Unregister(connected_clients, me.room_id, me.client_id)
        pruned == me.room_id \in DOMAIN connected_clients /\ me.room_id \notin DOMAIN cc
        others == [b \in Conns |-> [ws[b] EXCEPT !.it = Staled(@, me.room_id, pruned)]]
    IN  /\ connected_clients' = cc
        /\ http' = [h \in HttpTasks |->
                       [http[h] EXCEPT !.it = Staled(@, me.room_id, pruned)]]
        /\ IF RoleMissing(store[me.room], me.client_id, me.is_spectator)
           THEN /\ ws' = [others EXCEPT ![c] = Crash(me, "KeyError")]
                /\ UNCHANGED store
           ELSE /\ store' = [store EXCEPT ![me.room] =
                                 RemoveClient(@, me.client_id, me.is_spectator)]
                /\ ws' = [others EXCEPT ![c] =
                             AfterBroadcast(me,
                                 broadcast_room_status(me.room_id, rooms, store', cc),
                                 TRUE)]

\* line 316: receive_json raises WebSocketDisconnect
ws_disconnect(c) ==
    /\ ws[c].pc = "recv"
    /\ Detach(c)
    /\ UNCHANGED <<rooms, inq, inbox, got, processed, njoins, nreqs>>

\* line 352 returns: the task goes on to line 353, or send_json raised
ws_sent(c) ==
    /\ ws[c].pc = "send"
    /\ CASE ws[c].sendres = "ok" ->
              /\ ws' = [ws EXCEPT ![c] =
                           AfterBroadcast(@,
                               broadcast_room_status(ws[c].room_id, rooms, store,
                                                     connected_clients),
                               FALSE)]
              /\ UNCHANGED <<store, connected_clients, http>>
         [] ws[c].sendres = "disconnect" -> Detach(c)
         [] OTHER ->
              /\ ws' = [ws EXCEPT ![c] = Crash(@, "RuntimeError")]
              /\ UNCHANGED <<store, connected_clients, http>>
    /\ UNCHANGED <<rooms, inq, inbox, got, processed, njoins, nreqs>>

\* a loop without the except: a failed send ends the task
AfterSendRaising(task, ok, cc) ==
    IF ~ok \/ IterRaises(task.it, cc)
    THEN Crash(task, "RuntimeError")
    ELSE AfterBroadcast(task, IterNext(task.it, cc), task.pc = "fbcast")
\* lines 122-126: the serving task after the awaited send returned (ok) or
\* raised: the bare except swallows the failure, and the loop fetches the next
\* websocket, which raises RuntimeError if the dict changed meanwhile
AfterSend(task, ok, cc) ==
    IF IterRaises(task.it, cc)
    THEN Crash(task, "RuntimeError")
    ELSE AfterBroadcast(task, IterNext(task.it, cc), task.pc = "fbcast")

\* lines 122-126, inside lines 353 and 375: one turn of the loop
ws_broadcast_step(c, ok) ==
    /\ ws[c].pc \in {"bcast", "fbcast"}
    /\ ok => Open(ws[c].it.tgt)
    /\ inbox' = Delivered(ws[c].it, ok)
    /\ got' = IF ws[c].pc = "bcast"
              THEN [got EXCEPT ![c][ws[c].it.tgt] = @ + 1]
              ELSE got
    /\ ws' = [ws EXCEPT ![c] = AfterSend(@, ok, connected_clients)]
    /\ UNCHANGED <<rooms, store, connected_clients, http, inq, processed, njoins, nreqs>>

\* ------------------------------------------------------------------ HTTP
\* the request task after its call of broadcast_room_status
HttpAfter(it) == [pc |-> IF it.active THEN "bcast" ELSE "idle", it |-> it]

\* POST /game/{game_code}/result (lines 186-199)
submit_game_result(game_code) ==
    /\ game_code \in DOMAIN rooms
    /\ store' = [store EXCEPT ![rooms[game_code]] = SubmitResult(@, GameResult)]
    /\ processed' = [processed EXCEPT ![rooms[game_code]] = <<>>]
    /\ nreqs' = nreqs + 1
    /\ UNCHANGED <<rooms, connected_clients, ws, http, inq, inbox, got, njoins>>

\* a join that also makes the second user a host
JoinHostIfAlone(room, user_id) ==
    [room EXCEPT !.users = Append(@, LobbyUser(user_id, Len(room.users) <= 1))]
\* lines 210-219
Join(room, user_id) ==
    [room EXCEPT !.users = Append(@, LobbyUser(user_id, Len(room.users) = 0))]

\* POST /game/{game_code}/join (lines 201-224), up to the first awaited send
join_lobby(h, game_code, user_id) ==
    /\ http[h].pc = "idle"
    /\ game_code \in DOMAIN rooms
    /\ store' = [store EXCEPT ![rooms[game_code]] = Join(@, user_id)]
    /\ http' = [http EXCEPT ![h] =
                   HttpAfter(broadcast_room_status(game_code, rooms, store',
                                                   connected_clients))]
    /\ njoins' = [njoins EXCEPT ![rooms[game_code]] = @ + 1]
    /\ nreqs' = nreqs + 1
    /\ UNCHANGED <<rooms, connected_clients, ws, inq, inbox, got, processed>>

\* PATCH /game/{game_code}/user/{user_id}/team (lines 226-243); an unknown
\* user is a 404 that changes nothing
update_team(h, game_code, user_id, team_data) ==
    /\ http[h].pc = "idle"
    /\ game_code \in DOMAIN rooms
    /\ TargetUser(store[rooms[game_code]].users, user_id) # 0
    /\ store' = [store EXCEPT ![rooms[game_code]] = SetTeam(@, user_id, team_data)]
    /\ http' = [http EXCEPT ![h] =
                   HttpAfter(broadcast_room_status(game_code, rooms, store',
                                                   connected_clients))]
    /\ nreqs' = nreqs + 1
    /\ UNCHANGED <<rooms, connected_clients, ws, inq, inbox, got, processed, njoins>>

\* PATCH /game/{game_code}/user/{user_id}/ready (lines 245-262)
update_ready_status(h, game_code, user_id, ready) ==
    /\ http[h].pc = "idle"
    /\ game_code \in DOMAIN rooms
    /\ TargetUser(store[rooms[game_code]].users, user_id) # 0
    /\ store' = [store EXCEPT ![rooms[game_code]] = SetReady(@, user_id, ready)]
    /\ http' = [http EXCEPT ![h] =
                   HttpAfter(broadcast_room_status(game_code, rooms, store',
                                                   connected_clients))]
    /\ nreqs' = nreqs + 1
    /\ UNCHANGED <<rooms, connected_clients, ws, inq, inbox, got, processed, njoins>>

\* lines 122-126: the request task after the awaited send returned or raised;
\* a RuntimeError of the iterator ends the request with a 500
HttpAfterSend(task, ok, cc) ==
    IF IterRaises(task.it, cc) THEN IdleHttp ELSE HttpAfter(IterNext(task.it, cc))

\* lines 122-126, inside lines 223, 242 and 261: one turn of the loop
http_broadcast_step(h, ok) ==
    /\ http[h].pc = "bcast"
    /\ ok => Open(http[h].it.tgt)
    /\ inbox' = Delivered(http[h].it, ok)
    /\ UNCHANGED got
    /\ http' = [http EXCEPT ![h] = HttpAfterSend(@, ok, connected_clients)]
    /\ UNCHANGED <<rooms, store, connected_clients, ws, inq, processed, njoins, nreqs>>

\* a status query that does not count the host as ready
get_lobby_status_strict(game_code) ==
    LET room == store[rooms[game_code]]
        all_ready == \A i \in 1..Len(room.users) :
                        room.users[i].team # "SPECTATOR" => room.users[i].isReady
    IN  [gameCode |-> game_code, settings |-> room.settings, users |-> room.users,
         status |-> room.status, currentSet |-> room.currentSet,
         allReady |-> all_ready]
\* GET /game/{game_code}/status (lines 164-184): a read of the room
get_lobby_status(game_code) ==
    LET room == store[rooms[game_code]]
        all_ready == \A i \in 1..Len(room.users) :
                        room.users[i].team # "SPECTATOR"
                            => (room.users[i].isReady \/ room.users[i].isHost)
    IN  [gameCode |-> game_code, settings |-> room.settings, users |-> room.users,
         status |-> room.status, currentSet |-> room.currentSet,
         allReady |-> all_ready]

\* ------------------------------------------------------------ transport
\* inbound messages received so far, over all connections
RECURSIVE Received(_)
Received(S) ==
    IF S = {} THEN 0
    ELSE LET c == CHOOSE x \in S : TRUE IN ws[c].nrecv + Received(S \ {c})

\* a client sends msg, its n-th message: it is in flight to the server
client_send(c, msg, max) ==
    /\ ws[c].pc \in {"recv", "send", "bcast"}
    /\ Len(inq[c]) < MaxQueue
    /\ Received(Conns) + Len(inq[c]) < max
    /\ inq' = [inq EXCEPT ![c] = Append(@, [n |-> ws[c].nrecv + Len(@) + 1, msg |-> msg])]
    /\ UNCHANGED <<rooms, store, connected_clients, ws, http, inbox, got, processed, njoins, nreqs>>

\* the server receives the oldest message in flight
Dequeue(c, res) ==
    /\ inq[c] # <<>>
    /\ ws_receive(c, Head(inq[c]).msg, Head(inq[c]).n, res)
    /\ inq' = [inq EXCEPT ![c] = Tail(@)]

\* a client sends msg and the server receives it at once
Direct(c, msg, res, max) ==
    /\ inq[c] = <<>>
    /\ Received(Conns) < max
    /\ ws_receive(c, msg, ws[c].nrecv + 1, res)
    /\ UNCHANGED inq

\* the peer closes: the close frame comes after the messages in flight
Leave(c) == inq[c] = <<>> /\ ws_disconnect(c)

SendResults == {"ok", "disconnect", "error"}

\* ---------------------------------------------------- the life cycle
\* what the clients send
LifeMsgs ==
    {[action |-> "ban", champion |-> "Ahri"]}
    \cup [action : {"submit_result"}, valid : BOOLEAN]
    \cup [action : {"update_team"}, userId : Ids, teamData : {NoTeamData}]
    \cup {[action |-> "hello"]}

\* Rooms of every mode, connections that attach, send, fail and leave, and
\* users that join.
Next ==
    \/ \E mode \in PlayerCountType, room_id \in RoomIds :
          Len(store) < MaxRooms /\ create_room(mode, room_id)
    \/ \E c \in Conns, room_id \in RoomIds \cup {NoId}, is_spectator \in BOOLEAN,
          client_id \in Ids : ws_connect(c, room_id, is_spectator, client_id)
    \/ \E c \in Conns, msg \in LifeMsgs, res \in SendResults : Direct(c, msg, res, MaxMsgs)
    \/ \E c \in Conns : Received(Conns) < MaxMsgs /\ ws_bad_frame(c) /\ UNCHANGED inq
    \/ \E c \in Conns : Leave(c)
    \/ \E c \in Conns : ws_sent(c)
    \/ \E c \in Conns, ok \in BOOLEAN : ws_broadcast_step(c, ok)
    \/ \E h \in HttpTasks, game_code \in RoomIds, user_id \in Ids :
          nreqs < MaxHttp /\ join_lobby(h, game_code, user_id)
    \/ \E h \in HttpTasks, ok \in BOOLEAN : http_broadcast_step(h, ok)

Spec == Init /\ [][Next]_vars

\* ------------------------------------------------------------ the lobby
\* One connection and the users of a room: they join, change team and
\* ready status over HTTP and over the connection, and the connection leaves.
InitLobby == InitWith(1)

LobbyWsMsgs ==
    [action : {"update_team"}, userId : Ids, teamData : TeamData]
    \cup [action : {"update_ready"}, userId : Ids, isReady : BOOLEAN]

NextLobby ==
    \/ \E room_id \in RoomIds :
          Len(store) < MaxRooms /\ create_room("representative", room_id)
    \/ \E c \in Conns, room_id \in RoomIds, client_id \in Ids :
          ws_connect(c, room_id, FALSE, client_id)
    \/ \E c \in Conns, msg \in LobbyWsMsgs : Direct(c, msg, "ok", LobbyMsgs)
    \/ \E c \in Conns : Leave(c)
    \/ \E c \in Conns : ws_sent(c)
    \/ \E c \in Conns : ws_broadcast_step(c, TRUE)
    \/ \E h \in HttpTasks, game_code \in RoomIds, user_id \in Ids :
          nreqs < LobbyHttp /\ join_lobby(h, game_code, user_id)
    \/ \E h \in HttpTasks, game_code \in RoomIds, user_id \in Ids, team_data \in TeamData :
          nreqs < LobbyHttp /\ update_team(h, game_code, user_id, team_data)
    \/ \E h \in HttpTasks, game_code \in RoomIds, user_id \in Ids, ready \in BOOLEAN :
          nreqs < LobbyHttp /\ update_ready_status(h, game_code, user_id, ready)
    \/ \E h \in HttpTasks : http_broadcast_step(h, TRUE)

SpecLobby == InitLobby /\ [][NextLobby]_vars

\* ------------------------------------------------------------ the draft
\* Two connections of one room whose clients ban, pick and submit results,
\* with messages in flight, and results submitted over HTTP.
InitDraft == InitWith(2)

DraftWsMsgs ==
    {[action |-> "ban", champion |-> "Ahri"], [action |-> "ban", champion |-> "Zed"],
     [action |-> "pick", champion |-> "Ahri"], [action |-> "submit_result", valid |-> TRUE]}

NextDraft ==
    \/ \E room_id \in RoomIds :
          Len(store) < MaxRooms /\ create_room("representative", room_id)
    \/ \E c \in Conns, room_id \in RoomIds, is_spectator \in BOOLEAN :
          ws_connect(c, room_id, is_spectator, c)
    \/ \E c \in Conns, msg \in DraftWsMsgs : client_send(c, msg, DraftMsgs)
    \/ \E c \in Conns : Dequeue(c, "ok")
    \/ \E c \in Conns : ws_sent(c)
    \/ \E c \in Conns : ws_broadcast_step(c, TRUE)
    \/ \E game_code \in RoomIds : nreqs < DraftHttp /\ submit_game_result(game_code)

SpecDraft == InitDraft /\ [][NextDraft]_vars

\* ----------------------------------------------------------- attaching
\* One more connection than the largest participant limit, with distinct
\* client ids, attaching to a room and leaving it.
TeamConns == PARTICIPANT_LIMITS("team") + 1
InitAttach == InitWith(TeamConns)

Left == {c \in Conns : ws[c].pc \in {"fbcast", "done", "crashed"}}
Watching == {c \in Conns : ws[c].is_spectator}

NextAttach ==
    \/ \E mode \in {"representative", "team"}, room_id \in RoomIds :
          Len(store) < MaxRooms /\ create_room(mode, room_id)
    \/ \E c \in Conns, room_id \in RoomIds, is_spectator \in BOOLEAN :
          /\ is_spectator => Watching = {}
          /\ ws_connect(c, room_id, is_spectator, c)
    \/ \E c \in Conns : Cardinality(Left) < MaxLeaves /\ Leave(c)
    \/ \E c \in Conns : ws_broadcast_step(c, TRUE)

SpecAttach == InitAttach /\ [][NextAttach]_vars

\* --------------------------------------------------------------- rooms
\* Rooms created one after the other under room ids that can collide, with
\* connections that attach, ban and leave, users that join and results
\* submitted in between.
InitRooms == InitWith(2)

NextRooms ==
    \/ \E mode \in PlayerCountType, room_id \in RoomIds :
          Len(store) < RoomsCreated /\ create_room(mode, room_id)
    \/ \E c \in Conns, room_id \in RoomIds, is_spectator \in BOOLEAN :
          ws_connect(c, room_id, is_spectator, c)
    \/ \E c \in Conns :
          Direct(c, [action |-> "ban", champion |-> "Ahri"], "ok", RoomsMsgs)
    \/ \E c \in Conns : Leave(c)
    \/ \E c \in Conns : ws_sent(c)
    \/ \E c \in Conns : ws_broadcast_step(c, TRUE)
    \/ \E game_code \in RoomIds : nreqs < RoomsHttp /\ submit_game_result(game_code)
    \/ \E h \in HttpTasks, game_code \in RoomIds, user_id \in Ids :
          nreqs < RoomsHttp /\ join_lobby(h, game_code, user_id)
    \/ \E h \in HttpTasks : http_broadcast_step(h, TRUE)

SpecRooms == InitRooms /\ [][NextRooms]_vars

\* ----------------------------------------------------------- a slow peer
\* Two connections of a room, the first of which has a peer that reads
\* late or never: a send to it may complete at any time, but nothing says
\* that it ever does.  Every other step that is enabled is taken in the end
\* (the event loop runs every task that is ready).
InitSlow == InitWith(NConn)

SlowPeer == Min(1..NConn)

NextSlow ==
    \/ \E room_id \in RoomIds :
          Len(store) < MaxRooms /\ create_room("representative", room_id)
    \/ \E c \in Conns, room_id \in RoomIds : ws_connect(c, room_id, FALSE, c)
    \/ \E c \in Conns :
          Direct(c, [action |-> "ban", champion |-> "Ahri"], "ok", SlowMsgs)
    \/ \E c \in Conns : ws_sent(c)
    \/ \E c \in Conns, ok \in BOOLEAN : ws_broadcast_step(c, ok)
    \/ \E h \in HttpTasks, game_code \in RoomIds, user_id \in Ids :
          nreqs < SlowHttp /\ join_lobby(h, game_code, user_id)
    \/ \E h \in HttpTasks, ok \in BOOLEAN : http_broadcast_step(h, ok)

\* the sends to the peers that are not slow complete or fail
FairSends ==
    /\ WF_vars(\E c \in Conns : ws_sent(c))
    /\ WF_vars(\E c \in Conns, ok \in BOOLEAN :
                  ws_broadcast_step(c, ok) /\ ws[c].it.tgt # SlowPeer)
    /\ WF_vars(\E h \in HttpTasks, ok \in BOOLEAN :
                  http_broadcast_step(h, ok) /\ http[h].it.tgt # SlowPeer)

SpecSlow == InitSlow /\ [][NextSlow]_vars /\ FairSends

\* ================================================================ claims
Champs(log, action) ==
    LET sel == SelectSeq(log, LAMBDA e : e.action = action)
    IN  [k \in 1..Len(sel) |-> sel[k].champion]

\* C1: in every room, bans is exactly the champions of the ban messages the
\* server applied in the current set, in the order it applied them, and picks
\* likewise; no message is applied twice, and the messages of one connection
\* are applied in the order the client sent them.
C1_BansPicksInArrivalOrder ==
    \A r \in 1..Len(store) :
        LET log == processed[r]
        IN  /\ store[r].bans = Champs(log, "ban")
            /\ store[r].picks = Champs(log, "pick")
            /\ \A j, k \in 1..Len(log) :
                   (j < k /\ log[j].conn = log[k].conn) => log[j].n < log[k].n

\* two connections each had a ban applied, of different champions
C1_Witness ==
    \E r \in 1..Len(store) :
        /\ Len(store[r].bans) = 2
        /\ store[r].bans[1] # store[r].bans[2]
        /\ processed[r][1].conn # processed[r][2].conn

\* one connection had two of its messages applied
C1_WitnessSameConnection ==
    \E r \in 1..Len(store) :
        /\ Len(processed[r]) = 2
        /\ processed[r][1].conn = processed[r][2].conn
        /\ processed[r][1].action # processed[r][2].action

\* C2: a result submission is one transition.  Whenever a room's results or
\* currentSet change, results has gained exactly one entry, currentSet has
\* grown by exactly 1 and bans and picks are empty, all in the same step; and
\* bans or picks never shrink in a step that is not such a submission.  No
\* state in between exists for a task, a status query or a broadcast to see.
C2_SubmitAtomic ==
    [][\A r \in 1..Len(store) :
          LET a == store[r]
              b == store'[r]
              submitted == /\ b.results = Append(a.results, GameResult)
                           /\ b.currentSet = a.currentSet + 1
                           /\ b.bans = <<>>
                           /\ b.picks = <<>>
          IN  /\ (b.results # a.results \/ b.currentSet # a.currentSet) => submitted
              /\ (Len(b.bans) < Len(a.bans) \/ Len(b.picks) < Len(a.picks)) => submitted
      ]_vars

\* a connection's submit_result was applied to a room whose bans another
\* connection had been sent: the result is in, the bans are gone
C2_Witness ==
    \E c, b \in Conns :
        /\ ws[c].pc = "send"
        /\ ws[c].action = "submit_result"
        /\ store[ws[c].room].results = <<GameResult>>
        /\ store[ws[c].room].currentSet = 2
        /\ store[ws[c].room].bans = <<>>
        /\ ws[b].room = ws[c].room
        /\ inbox[b].type = "room"
        /\ inbox[b].bans # <<>>

\* C3: in a room that is not solo, an attach as participant is refused when
\* the room already has as many participants as its mode allows
\* (representative 2, team 10) and succeeds when it has fewer, an attach as
\* spectator is never refused for capacity, and so a room never has more
\* participants than its mode allows.
C3_ParticipantLimit ==
    [][/\ \A r \in 1..Len(store') :
             Cardinality(store'[r].participants)
                 <= PARTICIPANT_LIMITS(store'[r].settings.playerCount)
       /\ \A c \in Conns :
             (/\ ws[c].pc = "idle"
              /\ ws'[c].pc # "idle"
              /\ ws'[c].room_id \in DOMAIN rooms
              /\ store[rooms[ws'[c].room_id]].settings.playerCount # "solo")
             => LET room == store[rooms[ws'[c].room_id]]
                    full == Cardinality(room.participants)
                                = PARTICIPANT_LIMITS(room.settings.playerCount)
                IN  (ws'[c].pc = "closed") <=> (~ws'[c].is_spectator /\ full)
      ]_vars

\* a team room with its 10 participants, and an eleventh that was refused
C3_Witness ==
    \E c \in Conns :
        /\ ws[c].pc = "closed"
        /\ ~ws[c].is_spectator
        /\ ws[c].room_id \in DOMAIN rooms
        /\ store[rooms[ws[c].room_id]].settings.playerCount = "team"
        /\ Cardinality(store[rooms[ws[c].room_id]].participants) = 10

\* a representative room with its 2 participants, a third that was refused
\* and a spectator that was let in
C3_WitnessRepresentative ==
    \E c, b \in Conns :
        /\ ws[c].pc = "closed"
        /\ ~ws[c].is_spectator
        /\ ws[c].room_id \in DOMAIN rooms
        /\ store[rooms[ws[c].room_id]].settings.playerCount = "representative"
        /\ Cardinality(store[rooms[ws[c].room_id]].participants) = 2
        /\ ws[b].pc = "recv"
        /\ ws[b].is_spectator
        /\ b > c

\* the rule of the claim: every user that is not a spectator is ready or host
ReadyRule(users) ==
    \A i \in 1..Len(users) :
        users[i].team # "SPECTATOR" => (users[i].isReady \/ users[i].isHost)

C4_Computed ==
    /\ \A game_code \in DOMAIN rooms :
           get_lobby_status(game_code).allReady
               = ReadyRule(get_lobby_status(game_code).users)
    /\ \A c \in Conns :
           ws[c].it.active => ws[c].it.snap.allReady = ReadyRule(ws[c].it.snap.users)
    /\ \A h \in HttpTasks :
           http[h].it.active => http[h].it.snap.allReady = ReadyRule(http[h].it.snap.users)

\* C4: the allReady of every status query and of every broadcast is true
\* exactly when every user of the room that is not a spectator is ready or
\* host; and a step that adds a user whose team is SPECTATOR (every join)
\* leaves the allReady of the room as it was.
C4_AllReady ==
    [][/\ C4_Computed'
       /\ \A game_code \in DOMAIN rooms :
             LET a == store[rooms[game_code]].users
                 b == store'[rooms'[game_code]].users
             IN  (/\ game_code \in DOMAIN rooms'
                  /\ Len(b) = Len(a) + 1
                  /\ SubSeq(b, 1, Len(a)) = a
                  /\ b[Len(b)].team = "SPECTATOR")
                 => get_lobby_status(game_code)'.allReady
                        = get_lobby_status(game_code).allReady
      ]_vars

\* a room that is not all ready because of a user in a team who is neither
\* ready nor host, after a spectator joined it
C4_Witness ==
    \E game_code \in DOMAIN rooms :
        LET users == store[rooms[game_code]].users
        IN  /\ Len(users) = 3
            /\ users[2].team = "BLUE" /\ ~users[2].isReady /\ ~users[2].isHost
            /\ users[3].team = "SPECTATOR"
            /\ ~get_lobby_status(game_code).allReady

\* a room that is all ready although its host, in a team, is not ready, in
\* the status query and in a broadcast under way
C4_WitnessHost ==
    \E game_code \in DOMAIN rooms, h \in HttpTasks :
        LET users == store[rooms[game_code]].users
        IN  /\ Len(users) = 2
            /\ users[1].team = "BLUE" /\ ~users[1].isReady /\ users[1].isHost
            /\ users[2].team = "SPECTATOR"
            /\ get_lobby_status(game_code).allReady
            /\ http[h].it.active
            /\ http[h].it.snap.users = users
            /\ http[h].it.snap.allReady

Hosts(users) == {i \in 1..Len(users) : users[i].isHost}

\* C5 as stated: in every room the first join returns a host and every later
\* join returns a user that is not a host, so that at most one user of the
\* room is host in every state.
C5_OnlyFirstJoinIsHost ==
    [][\A r \in 1..Len(store) :
          LET a == store[r].users
              b == store'[r].users
          IN  /\ Len(b) = Len(a) + 1 => (b[Len(b)].isHost <=> njoins[r] = 0)
              /\ Cardinality(Hosts(b)) <= 1
      ]_vars

\* C5: a join returns a host exactly when the room's users are empty at the
\* time of the join, which is the first join and any join after the leaving
\* of connections emptied users again; a join leaves the users before it as
\* they were, no step changes the isHost of a user that stays, a step that
\* removes users removes those of one id, and at most one user of a room is
\* host in every state.
C5_HostWhenUsersEmpty ==
    [][\A r \in 1..Len(store) :
          LET a == store[r].users
              b == store'[r].users
          IN  /\ Len(b) = Len(a) + 1
                    => /\ SubSeq(b, 1, Len(a)) = a
                       /\ b[Len(b)].isHost <=> Len(a) = 0
              /\ Len(b) = Len(a)
                    => \A i \in 1..Len(a) : b[i].isHost = a[i].isHost /\ b[i].id = a[i].id
              /\ Len(b) < Len(a)
                    => \E id \in Ids : b = SelectSeq(a, LAMBDA u : u.id # id)
              /\ Len(b) <= Len(a) + 1
              /\ Cardinality(Hosts(b)) <= 1
      ]_vars

\* a room whose second join returned a host: the host that joined first was
\* removed when a connection with its id left
C5_Witness ==
    \E r \in 1..Len(store) :
        /\ njoins[r] = 2
        /\ Len(store[r].users) = 1
        /\ store[r].users[1].isHost
        /\ \E c \in Conns : ws[c].pc \in {"fbcast", "done"} /\ ws[c].room = r

\* a room whose second join, after a host, returned a user that is not host
C5_WitnessLaterJoin ==
    \E r \in 1..Len(store) :
        /\ njoins[r] = 2
        /\ Len(store[r].users) = 2
        /\ store[r].users[1].isHost
        /\ ~store[r].users[2].isHost

\* the step in which the task of connection c runs its disconnect handler
DetachStep(c) ==
    /\ ws[c].pc \in {"recv", "send"}
    /\ \/ ws'[c].pc \in {"fbcast", "done"}
       \/ ws'[c].pc = "crashed" /\ ws'[c].exc = "KeyError"

\* C6: a detach raises no error and never deletes the room.  After it the
\* client's id is absent from the registry of its room, a registry entry
\* without handles is pruned, the room store keeps every room; and the detach
\* of a client that was detached before (its id neither in the registry nor
\* in its role's set of the room) changes nothing.
C6_DetachIdempotent ==
    [][\A c \in Conns :
          DetachStep(c) =>
              LET room_id == ws[c].room_id
                  client_id == ws[c].client_id
                  Gone(cc) == room_id \notin DOMAIN cc \/ client_id \notin Keys(cc[room_id])
              IN  /\ Gone(connected_clients')
                  /\ \A r \in DOMAIN connected_clients' : Live(connected_clients'[r]) # {}
                  /\ rooms' = rooms
                  /\ Len(store') = Len(store)
                  /\ ws'[c].exc = ""
                  /\ (/\ Gone(connected_clients)
                      /\ RoleMissing(store[ws[c].room], client_id, ws[c].is_spectator))
                         => store' = store /\ connected_clients' = connected_clients
      ]_vars

\* C7: when the broadcast that follows a participant's ban or pick sends its
\* message to an observer of the room, the message carries bans and picks,
\* and they equal the bans and picks of the room.
C7_BroadcastCarriesBansPicks ==
    [][\A c \in Conns :
          (/\ ws[c].pc = "bcast"
           /\ ws[c].action \in {"ban", "pick"}
           /\ inbox'[ws[c].it.tgt] # inbox[ws[c].it.tgt])
          => LET m == ws[c].it.snap
             IN  /\ {"bans", "picks"} \subseteq DOMAIN m
                 /\ m.bans = store[ws[c].room].bans
                 /\ m.picks = store[ws[c].room].picks
      ]_vars

\* C8: a connection step for a room id that is missing or unknown, or for a
\* room whose mode is solo, ends with the channel closed, whether it asked to
\* be participant or spectator, and leaves the registry and every room
\* (participants, spectators, users) as they were.
C8_SoloOrMissingRefused ==
    [][\A c \in Conns :
          (ws[c].pc = "idle" /\ ws'[c].pc # "idle")
          => LET room_id == ws'[c].room_id
             IN  (\/ room_id = NoId
                  \/ room_id \notin DOMAIN rooms
                  \/ store[rooms[room_id]].settings.playerCount = "solo")
                 => /\ ws'[c].pc = "closed"
                    /\ connected_clients' = connected_clients
                    /\ store' = store
      ]_vars

\* a spectator and a participant were both refused by a solo room, which
\* has nobody attached
C8_Witness ==
    \E c, b \in Conns :
        /\ ws[c].pc = "closed" /\ ws[c].is_spectator
        /\ ws[b].pc = "closed" /\ ~ws[b].is_spectator
        /\ ws[c].room_id \in DOMAIN rooms
        /\ ws[b].room_id = ws[c].room_id
        /\ store[rooms[ws[c].room_id]].settings.playerCount = "solo"
        /\ store[rooms[ws[c].room_id]].participants = {}
        /\ store[rooms[ws[c].room_id]].spectators = {}
        /\ ws[c].room_id \notin DOMAIN connected_clients

\* a connection was refused for a room id that no room has, and one for no
\* room id at all
C8_WitnessMissing ==
    \E c, b \in Conns :
        /\ ws[c].pc = "closed"
        /\ ws[c].room_id # NoId
        /\ ws[c].room_id \notin DOMAIN rooms
        /\ ws[b].pc = "closed"
        /\ ws[b].room_id = NoId

\* C9: every serving task that has terminated, for whatever reason, has
\* detached its connection: its handle is not in the registry, and its slot
\* among the participants or spectators is free (or is that of another
\* connection that drew the same client id and is still served).
C9_TerminationDetaches ==
    \A c \in Conns :
        ws[c].pc \in {"crashed", "done"} =>
            LET room_id == ws[c].room_id
                room == store[ws[c].room]
            IN  /\ room_id \in DOMAIN connected_clients
                       => c \notin Handles(connected_clients[room_id])
                /\ \/ RoleMissing(room, ws[c].client_id, ws[c].is_spectator)
                   \/ \E b \in Conns \ {c} :
                          /\ Open(b)
                          /\ ws[b].room = ws[c].room
                          /\ ws[b].client_id = ws[c].client_id
                          /\ ws[b].is_spectator = ws[c].is_spectator

C11_OneMessagePerObserver ==
    [][\A c \in Conns :
          (/\ ws[c].pc = "bcast"
           /\ ws'[c].pc = "recv"
           /\ ws[c].room_id \in DOMAIN connected_clients)
          => \A h \in Handles(connected_clients[ws[c].room_id]) : got'[c][h] = 1
      ]_vars

\* C12: a step that adds a result to a room with observers triggers a
\* broadcast to them: it is the receive of a serving task, which goes on to
\* its send and broadcast, or it leaves a request task inside the broadcast
\* of that room.
C12_SubmitResultBroadcasts ==
    [][\A game_code \in DOMAIN rooms :
          (/\ store'[rooms[game_code]].results # store[rooms[game_code]].results
           /\ game_code \in DOMAIN connected_clients)
          => \/ \E c \in Conns :
                    /\ ws[c].pc = "recv"
                    /\ ws'[c].pc = "send"
                    /\ ws[c].room_id = game_code
             \/ \E h \in HttpTasks :
                    /\ http'[h].it.active
                    /\ http'[h].it.rid = game_code
                    /\ http'[h] # http[h]
      ]_vars

\* the messages of the model, those without a known action included
AnyMsgs == Msgs \cup LifeMsgs \cup LobbyWsMsgs \cup DraftWsMsgs

\* a message that is not an accepted action: from a spectator, with an
\* unknown action name, or an update of a user that the room does not have
NotAccepted(room, is_spectator, msg) ==
    \/ is_spectator
    \/ msg.action \notin {"ban", "pick", "submit_result", "update_team", "update_ready"}
    \/ /\ msg.action \in {"update_team", "update_ready"}
       /\ TargetUser(room.users, msg.userId) = 0

\* C13: the receive of a message that is not an accepted action leaves every
\* room as it was (bans, picks, results, currentSet, status, settings, users)
\* and does not end the connection: its task goes on to send the room.
C13_NotAcceptedIsNoOp ==
    [][\A c \in Conns :
          (ws[c].pc = "recv" /\ ws'[c] # ws[c])
          => \A msg \in AnyMsgs, res \in SendResults :
                 (/\ NotAccepted(store[ws[c].room], ws[c].is_spectator, msg)
                  /\ ws_receive(c, msg, ws[c].nrecv + 1, res))
                 => /\ store' = store
                    /\ ws'[c].pc = "send"
                    /\ ws'[c].exc = ""
      ]_vars

\* a spectator's ban was received: the room has no ban and the task goes on
C13_Witness ==
    \E c \in Conns :
        /\ ws[c].pc = "send"
        /\ ws[c].is_spectator
        /\ ws[c].action = "ban"
        /\ store[ws[c].room].bans = <<>>

\* a participant's message with an unknown action was received
C13_WitnessUnknown ==
    \E c \in Conns :
        /\ ws[c].pc = "send" /\ ~ws[c].is_spectator /\ ws[c].action = "hello"

\* a participant's message that updates the team of a user the room does
\* not have was received
C13_WitnessNoUser ==
    \E c \in Conns :
        /\ ws[c].pc = "send" /\ ~ws[c].is_spectator /\ ws[c].action = "update_team"
        /\ store[ws[c].room].users = <<>>

\* C14: the broadcast for a mutation carries the room as the mutation left
\* it.  The status_update is built when broadcast_room_status is called, so
\* this says: while the task of connection c is between the mutation of its
\* message and that call, the receive of a message of another connection b
\* does not change what the status_update of c's room will carry.
C14_SnapshotWithMutation ==
    [][\A c, b \in Conns :
          (/\ c # b
           /\ ws[c].pc = "send" /\ ws'[c].pc = "send"
           /\ ws[b].pc = "recv" /\ ws'[b].pc = "send")
          => StatusUpdate(ws[c].room_id, store'[ws[c].room])
                 = StatusUpdate(ws[c].room_id, store[ws[c].room])
      ]_vars

\* C15: a step that creates a room leaves every room that existed before it
\* in the store under its identifier, with its bans, picks, results, users
\* and currentSet; and a step after which a room that existed before has
\* currentSet = 1 again does not exist.
C15_CreateRoomKeepsRooms ==
    [][\A room_id \in DOMAIN rooms :
          LET a == store[rooms[room_id]]
              b == store'[rooms'[room_id]]
          IN  /\ room_id \in DOMAIN rooms'
              /\ Len(store') > Len(store)
                    => /\ rooms'[room_id] = rooms[room_id]
                       /\ b.bans = a.bans
                       /\ b.picks = a.picks
                       /\ b.results = a.results
                       /\ b.users = a.users
                       /\ b.currentSet = a.currentSet
              /\ a.currentSet > 1 => b.currentSet > 1
      ]_vars

\* C16: no error leaves a broadcast.  A serving task that is suspended in
\* the loop of a broadcast does not end with an exception at its next step,
\* and a request task that is suspended there goes on to the next handle of
\* the room or returns after the last one, whatever the attaches and
\* detaches of other connections did to the registry meanwhile.
C16_BroadcastNotAborted ==
    [][/\ \A c \in Conns :
             ws[c].pc \in {"bcast", "fbcast"} => ws'[c].pc # "crashed"
       /\ \A h \in HttpTasks :
             (http[h].pc = "bcast" /\ http'[h] # http[h] /\ http'[h].pc # "bcast")
             => ~IterRaises(http[h].it, connected_clients)
      ]_vars

\* C17: a slow peer does not block the others.  Whenever a serving task is
\* in the broadcast for a message, every observer of the room other than the
\* slow peer is in the end sent the status_update of that broadcast (after
\* the room that line 352 sent to the sender), unless a change of the
\* registry aborts the broadcast.
C17_SlowPeerBlocksNobody ==
    \A c \in 1..NConn, h \in 1..NConn :
        (/\ ws[c].pc = "bcast"
         /\ h # SlowPeer
         /\ h \in Handles(connected_clients[ws[c].room_id]))
        ~> (\/ got[c][h] = IF h = c THEN 2 ELSE 1
            \/ ws[c].pc = "crashed"
            \/ ws[c].pc = "bcast" /\ IterRaises(ws[c].it, connected_clients))

\* The lobby user of a connection: the person behind connection c joined
\* the lobby as the user with id c.  The server is told nothing of it: the
\* connection parameters it reads are the room id and the spectator flag.
UserOf(c) == c

\* C18: the step in which the task of connection c runs its disconnect
\* handler removes from users the entry of the lobby user of c and no other
\* entry, and keeps the order of the users that remain.
C18_DisconnectRemovesUser ==
    [][\A c \in Conns :
          DetachStep(c)
          => store'[ws[c].room].users
                 = SelectSeq(store[ws[c].room].users, LAMBDA u : u.id # UserOf(c))
      ]_vars

\* C19: in every room object currentSet is 1 plus the number of results; no
\* step decreases currentSet, and every step leaves the results a room had
\* as a prefix of the results it has.
C19_SetCountsResults ==
    [][/\ \A r \in 1..Len(store') :
             store'[r].currentSet = 1 + Len(store'[r].results)
       /\ \A r \in 1..Len(store) :
             LET a == store[r]
                 b == store'[r]
             IN  /\ b.currentSet >= a.currentSet
                 /\ Len(b.results) >= Len(a.results)
                 /\ SubSeq(b.results, 1, Len(a.results)) = a.results
      ]_vars

\* a room in its third set, one result submitted over HTTP and one by the
\* message of a connection
C19_Witness ==
    \E c \in Conns :
        /\ ws[c].pc = "send"
        /\ ws[c].action = "submit_result"
        /\ nreqs = 1
        /\ store[ws[c].room].currentSet = 3
        /\ Len(store[ws[c].room].results) = 2

\* C20: in every state (each is a point where another task can run), for
\* every room the client ids that hold a handle in the registry are the
\* participants and the spectators of the room together, no client id is
\* both, and the registry has no entry without handles.
C20_RegistryMatchesRoles ==
    /\ \A room_id \in DOMAIN rooms :
           LET room == store[rooms[room_id]]
               keys == IF room_id \in DOMAIN connected_clients
                       THEN Keys(connected_clients[room_id]) ELSE {}
           IN  /\ keys = room.participants \cup room.spectators
               /\ room.participants \cap room.spectators = {}
    /\ \A room_id \in DOMAIN connected_clients : Live(connected_clients[room_id]) # {}
=============================================================================
